---- MODULE Spec2Model ----
(***************************************************************************)
(* Model of the logistics tracker's request handlers (src/app.py) over its *)
(* relational store: the schedule ledger, the port/plant stock counters,   *)
(* the activity log and the session-gated handlers that mutate them.       *)
(*                                                                         *)
(* Spec      : one client; it sends a request, the handler runs to         *)
(*             completion (one action per handler), the client takes the   *)
(*             response (Return) and sends the next.  A storage fault may  *)
(*             be injected at a statement of update_schedule_status.       *)
(* SpecConc  : two update_schedule_status requests interleaved statement   *)
(*             by statement, each on its own connection (READ COMMITTED,   *)
(*             row locks held until the connection commits).               *)
(* SpecSignup: two signup requests interleaved statement by statement.     *)
(***************************************************************************)
EXTENDS Integers, Sequences, FiniteSets, TLC

VARIABLES
    users,      \* table users: sequence of rows [email, role]
    ports,      \* table ports: id -> [capacity, current_stock]
    plants,     \* table plants: id -> [capacity, current_stock]
    schedules,  \* table schedules: id -> [type, port_id, plant_id, quantity, status, created_by]
    log,        \* table user_activities: sequence of rows [id, user_email, action]
    seq,        \* the SERIAL counters of ports, plants, schedules, user_activities,
                \* uploaded_files
    session,    \* the client's session cookie: [user, role]
    last,       \* the last request served and its response
    pre,        \* the committed tables as they were when the last request arrived
    conn,       \* the requests in flight (SpecConc): per worker, its position and its connection
    applied     \* history: schedule id -> how many times a completion's stock UPDATEs were committed

vars == <<users, ports, plants, schedules, log, seq, session, last, pre, conn, applied>>

(***************************************************************************)
(* Bounds of the model.                                                    *)
(***************************************************************************)
\* user_activities ids handed out (every logging request takes one)
MaxLog == 3
\* schedules ids handed out (3 are seeded)
MaxSchedules == 4
\* ports ids and plants ids handed out (2 of each are seeded)
MaxLocations == 3

\* a NULL foreign key / an absent form field
NoId == 0

NoSession == [user |-> "", role |-> ""]

\* status values a client may send: the five recognized ones, an
\* unrecognized one, and none at all (request.json.get('status') is None)
StatusInputs == {"scheduled", "in-progress", "delayed", "completed", "canceled",
                 "archived", ""}

\* forms create_schedule receives (NoId: the field is absent; 3 names a
\* port / plant only once add_location has added it; status is a field the
\* handler does not read, "" when the form has none)
CreateInputs ==
    {[type |-> "vessel-to-port", port_id |-> 1, plant_id |-> NoId, quantity |-> 6000,
      status |-> "completed"],
     [type |-> "vessel-to-port", port_id |-> 1, plant_id |-> NoId, quantity |-> 0 - 6000,
      status |-> ""],
     [type |-> "port-to-plant", port_id |-> 1, plant_id |-> 1, quantity |-> 6000,
      status |-> ""],
     [type |-> "port-to-plant", port_id |-> 1, plant_id |-> NoId, quantity |-> 6000,
      status |-> ""],
     [type |-> "port-to-plant", port_id |-> 3, plant_id |-> 3, quantity |-> 6000,
      status |-> ""]}

\* (type, capacity) pairs add_location receives ("" is an absent field)
AddInputs == {<<"port", "500">>, <<"plant", "500">>, <<"", "500">>, <<"port", "">>,
              <<"depot", "500">>, <<"plant", "abc">>}

\* 'type' values delete_location receives
LocationTypeInputs == {"port", "plant", "user_activitie", "depot"}

(***************************************************************************)
(* init_db_logic: the seeded database.                                     *)
(***************************************************************************)
SeedUsers ==
    << [email |-> "owner@example.com",   role |-> "owner"],
       [email |-> "manager@example.com", role |-> "manager"],
       [email |-> "admin@example.com",   role |-> "admin"] >>

SeedPorts ==
    (1 :> [capacity |-> 10000, current_stock |-> 5000]) @@
    (2 :> [capacity |-> 15000, current_stock |-> 8000])

SeedPlants ==
    (1 :> [capacity |-> 5000, current_stock |-> 2000]) @@
    (2 :> [capacity |-> 7000, current_stock |-> 3000])

SeedSchedules ==
    (1 :> [type |-> "vessel-to-port", port_id |-> 1, plant_id |-> NoId,
           quantity |-> 5000, status |-> "scheduled", created_by |-> "system"]) @@
    (2 :> [type |-> "port-to-plant", port_id |-> 2, plant_id |-> 1,
           quantity |-> 2000, status |-> "completed", created_by |-> "system"]) @@
    (3 :> [type |-> "vessel-to-port", port_id |-> 2, plant_id |-> NoId,
           quantity |-> 7500, status |-> "in-progress", created_by |-> "system"])

SeedSeq == [ports |-> 2, plants |-> 2, schedules |-> 3, log |-> 0, files |-> 0]

\* the committed tables a request can change, as one value
Tables == [ports |-> ports, plants |-> plants, schedules |-> schedules, log |-> log]

\* no row fetched
NoSchedule == [type |-> "", port_id |-> NoId, plant_id |-> NoId, quantity |-> 0,
               status |-> "", created_by |-> ""]

\* a worker with no request: its connection holds no uncommitted write
Idle == [pc |-> "idle", schedule_id |-> NoId, new_status |-> "", schedule |-> NoSchedule,
         ports |-> << >>, plants |-> << >>, status_written |-> FALSE, result |-> "",
         email |-> ""]

\* no request is being served and no response is waiting to be taken
NoRequest == [op |-> "none", result |-> ""]

Ready == last = NoRequest /\ \A w \in DOMAIN conn : conn[w] = Idle

Workers == {1, 2}

Init ==
    /\ users = SeedUsers
    /\ ports = SeedPorts
    /\ plants = SeedPlants
    /\ schedules = SeedSchedules
    /\ log = << >>
    /\ seq = SeedSeq
    /\ session = NoSession
    /\ last = NoRequest
    /\ pre = [ports |-> SeedPorts, plants |-> SeedPlants,
              schedules |-> SeedSchedules, log |-> << >>]
    /\ conn = [w \in Workers |-> Idle]
    /\ applied = [s \in DOMAIN SeedSchedules |-> 0]

(***************************************************************************)
(* Access policy.                                                          *)
(***************************************************************************)
\* faulty variant: the edit check lets every role through
can_edit_data_Everyone(user_role) == TRUE

can_edit_data(user_role) == user_role \in {"admin", "owner", "manager"}

\* faulty variant: the owner check is the edit check
is_owner_Editors(user_role) == user_role \in {"admin", "owner", "manager"}

is_owner(user_role) == user_role \in {"admin", "owner"}

LoggedIn == session.user # ""

(***************************************************************************)
(* log_activity: INSERT INTO user_activities, on the request's connection. *)
(***************************************************************************)
\* faulty variant: the activity row is not inserted
LogAppended_Dropped(L, n, user_email, action) == L

LogAppended(L, n, user_email, action) ==
    Append(L, [id |-> n + 1, user_email |-> user_email, action |-> action])

(***************************************************************************)
(* login / logout.                                                         *)
(***************************************************************************)
\* SELECT * FROM users WHERE email = %s, fetch one: the rows that match
UsersWithEmail(email) == SelectSeq(users, LAMBDA u : u.email = email)

\* login forms: the seeded users with their own role and the right password,
\* and a wrong password, a role that is not the user's, and the email that
\* signup registers (unknown until then)
LoginInputs ==
    {[email |-> SeedUsers[i].email, password_ok |-> TRUE,
      role |-> SeedUsers[i].role] : i \in DOMAIN SeedUsers}
    \cup {[email |-> "owner@example.com", password_ok |-> FALSE, role |-> "owner"],
          [email |-> "manager@example.com", password_ok |-> TRUE, role |-> "owner"],
          [email |-> "new@example.com", password_ok |-> TRUE, role |-> "user"]}

Login(email, password_ok, role) ==
    LET found == UsersWithEmail(email)
        ok == /\ found # << >>
              /\ password_ok
              /\ found[1].role = role
    IN  /\ Ready
        /\ ok => seq.log < MaxLog
        /\ session' = IF ok THEN [user |-> email, role |-> found[1].role] ELSE session
        /\ log' = IF ok THEN LogAppended(log, seq.log, email, "login") ELSE log
        /\ seq' = IF ok THEN [seq EXCEPT !.log = @ + 1] ELSE seq
        /\ last' = [op |-> "login", email |-> email, password_ok |-> password_ok,
                    role |-> role,
                    result |-> IF ok THEN "OK" ELSE "InvalidCredentials"]
        /\ pre' = Tables
        /\ UNCHANGED <<users, ports, plants, schedules, conn, applied>>

Logout ==
    /\ Ready
    /\ LoggedIn => seq.log < MaxLog
    /\ log' = IF LoggedIn THEN LogAppended(log, seq.log, session.user, "logout") ELSE log
    /\ seq' = IF LoggedIn THEN [seq EXCEPT !.log = @ + 1] ELSE seq
    /\ session' = NoSession
    /\ last' = [op |-> "logout", user |-> session.user, result |-> "OK"]
    /\ pre' = Tables
    /\ UNCHANGED <<users, ports, plants, schedules, conn, applied>>

(***************************************************************************)
(* signup, served start to end.                                            *)
(***************************************************************************)
\* signup bodies: a new email, an email that has a row, a missing field
SignupInputs ==
    {[email |-> "new@example.com", complete |-> TRUE],
     [email |-> "owner@example.com", complete |-> TRUE],
     [email |-> "new@example.com", complete |-> FALSE]}

\* INSERT INTO users (...) with the fixed role 'user'
UserInserted(U, email) == Append(U, [email |-> email, role |-> "user"])

Signup(email, complete) ==
    LET result == IF ~complete THEN "MissingFields"
                  ELSE IF UsersWithEmail(email) # << >> THEN "UserExists"
                  ELSE "OK"
    IN  /\ Ready
        /\ result = "OK" => seq.log < MaxLog
        /\ users' = IF result = "OK" THEN UserInserted(users, email) ELSE users
        /\ log' = IF result = "OK" THEN LogAppended(log, seq.log, email, "signup") ELSE log
        /\ seq' = IF result = "OK" THEN [seq EXCEPT !.log = @ + 1] ELSE seq
        /\ last' = [op |-> "signup", email |-> email, complete |-> complete,
                    result |-> result]
        /\ pre' = Tables
        /\ UNCHANGED <<ports, plants, schedules, session, conn, applied>>

(***************************************************************************)
(* create_schedule.                                                        *)
(***************************************************************************)
\* the foreign keys of schedules: a non-NULL reference must name a row
ForeignKeysHold(port_id, plant_id) ==
    /\ port_id = NoId \/ port_id \in DOMAIN ports
    /\ plant_id = NoId \/ plant_id \in DOMAIN plants

\* GET: the form is rendered, or the client is redirected
CreateScheduleForm ==
    /\ Ready
    /\ last' = [op |-> "create_schedule", method |-> "GET", user |-> session.user,
                role |-> session.role,
                result |-> IF LoggedIn /\ can_edit_data(session.role)
                           THEN "Form" ELSE "Redirect"]
    /\ pre' = Tables
    /\ UNCHANGED <<users, ports, plants, schedules, log, seq, session, conn, applied>>

\* faulty variant: a status field of the form is stored
InitialStatus_FromForm(form_status) ==
    IF form_status = "" THEN "scheduled" ELSE form_status

\* the status value of the INSERT: the literal 'scheduled'
InitialStatus(form_status) == "scheduled"

\* POST
CreateSchedule(type, port_id, plant_id, quantity, form_status) ==
    LET authorized == LoggedIn /\ can_edit_data(session.role)
        inserted == authorized /\ ForeignKeysHold(port_id, plant_id)
        id == seq.schedules + 1
        row == [type |-> type, port_id |-> port_id, plant_id |-> plant_id,
                quantity |-> quantity, status |-> InitialStatus(form_status),
                created_by |-> session.user]
    IN  /\ Ready
        /\ inserted => (seq.schedules < MaxSchedules /\ seq.log < MaxLog)
        /\ schedules' = IF inserted THEN schedules @@ (id :> row) ELSE schedules
        /\ log' = IF inserted
                  THEN LogAppended(log, seq.log, session.user, "create_schedule")
                  ELSE log
        /\ seq' = IF inserted
                  THEN [seq EXCEPT !.schedules = @ + 1, !.log = @ + 1]
                  ELSE seq
        /\ applied' = IF inserted THEN applied @@ (id :> 0) ELSE applied
        /\ last' = [op |-> "create_schedule", method |-> "POST", type |-> type,
                    port_id |-> port_id, plant_id |-> plant_id,
                    quantity |-> quantity, form_status |-> form_status,
                    user |-> session.user, role |-> session.role,
                    result |-> IF ~authorized THEN "Redirect"
                               ELSE IF inserted THEN "OK"
                               ELSE "ServerError"]
        /\ pre' = Tables
        /\ UNCHANGED <<users, ports, plants, session, conn>>

(***************************************************************************)
(* update_schedule_status: the statements of the handler.                  *)
(***************************************************************************)
\* faulty variant: the status check lets an unlisted value through
RecognizedStatuses_Wider ==
    {"scheduled", "in-progress", "delayed", "completed", "canceled", "archived"}

RecognizedStatuses == {"scheduled", "in-progress", "delayed", "completed", "canceled"}

\* faulty variant: canceled is not treated as terminal
TerminalStatuses_CompletedOnly == {"completed"}

TerminalStatuses == {"completed", "canceled"}

\* faulty variant: a cancellation moves stock as well
Completes_OrCancels(new_status) == new_status \in {"completed", "canceled"}

\* if new_status == 'completed': the branch that issues the stock UPDATEs
Completes(new_status) == new_status = "completed"

\* faulty variant: the stock UPDATE writes nothing
StockAdded_Nothing(T, id, q) == T

\* UPDATE <table> SET current_stock = current_stock + q WHERE id = id
\* (no row with that id, or a NULL id: no row is updated)
StockAdded(T, id, q) ==
    [i \in DOMAIN T |-> IF i = id THEN [T[i] EXCEPT !.current_stock = @ + q] ELSE T[i]]

\* faulty variant: a vessel-to-port completion takes the quantity from the port
PortsCompleted_Subtracting(P, schedule) ==
    IF schedule.type \in {"vessel-to-port", "port-to-plant"}
    THEN [i \in DOMAIN P |->
            IF i = schedule.port_id
            THEN [P[i] EXCEPT !.current_stock = @ - schedule.quantity]
            ELSE P[i]]
    ELSE P

\* faulty variant: the plant is not credited
PlantsCompleted_Skipped(L, schedule) == L

\* the UPDATE ports statement of a completion, applied to the ports table P
PortsCompleted(P, schedule) ==
    IF schedule.type = "vessel-to-port"
    THEN StockAdded(P, schedule.port_id, schedule.quantity)
    ELSE IF schedule.type = "port-to-plant"
         THEN StockAdded(P, schedule.port_id, 0 - schedule.quantity)
         ELSE P

\* the UPDATE plants statement of a completion, applied to the plants table L
PlantsCompleted(L, schedule) ==
    IF schedule.type = "port-to-plant"
    THEN StockAdded(L, schedule.plant_id, schedule.quantity)
    ELSE L

\* whether a completion of this schedule issues a stock UPDATE at all
IssuesStockUpdate(schedule) == schedule.type \in {"vessel-to-port", "port-to-plant"}

\* faulty variant: the status UPDATE matches no row
StatusWritten_Nothing(S, schedule_id, new_status) == S

\* UPDATE schedules SET status = %s WHERE id = %s
StatusWritten(S, schedule_id, new_status) ==
    [i \in DOMAIN S |-> IF i = schedule_id THEN [S[i] EXCEPT !.status = new_status] ELSE S[i]]

\* the statement at which a storage error is raised ("none": no error)
Faults == {"none", "stock", "log", "status", "commit"}

(***************************************************************************)
(* update_schedule_status, served start to end on one connection.          *)
(* log_activity runs execute_query on the request's own connection, and    *)
(* execute_query commits: the stock UPDATEs issued before it are committed *)
(* with the activity row, before the status UPDATE is issued.  The except  *)
(* branch's rollback undoes only what was not committed yet.               *)
(***************************************************************************)
UpdateScheduleStatus(schedule_id, new_status, fault) ==
    LET authorized == LoggedIn /\ can_edit_data(session.role)
        valid == new_status \in RecognizedStatuses
        found == schedule_id \in DOMAIN schedules
        schedule == schedules[schedule_id]
        passed == authorized /\ valid /\ found /\ schedule.status \notin TerminalStatuses
        completing == passed /\ Completes(new_status)
        \* the first commit (log_activity's) is reached and succeeds
        logged == /\ passed
                  /\ fault # "log"
                  /\ ~(fault = "stock" /\ completing /\ IssuesStockUpdate(schedule))
        \* the final commit is reached and succeeds
        written == logged /\ fault \notin {"status", "commit"}
        result == IF ~authorized THEN "Unauthorized"
                  ELSE IF ~valid THEN "InvalidStatus"
                  ELSE IF ~found THEN "NotFound"
                  ELSE IF schedule.status \in TerminalStatuses THEN "InvalidTransition"
                  ELSE IF ~written THEN "InternalError"
                  ELSE "OK"
    IN  /\ Ready
        \* a fault is raised only at a statement the request reaches
        /\ fault \in {"log", "status", "commit"} => (authorized /\ valid /\ passed)
        /\ fault = "stock" =>
              (authorized /\ valid /\ completing /\ IssuesStockUpdate(schedule))
        /\ logged => seq.log < MaxLog
        /\ ports' = IF logged /\ completing THEN PortsCompleted(ports, schedule) ELSE ports
        /\ plants' = IF logged /\ completing THEN PlantsCompleted(plants, schedule) ELSE plants
        /\ log' = IF logged
                  THEN LogAppended(log, seq.log, session.user, "update_status")
                  ELSE log
        /\ seq' = IF logged THEN [seq EXCEPT !.log = @ + 1] ELSE seq
        /\ schedules' = IF written
                        THEN StatusWritten(schedules, schedule_id, new_status)
                        ELSE schedules
        /\ last' = [op |-> "update_schedule_status", schedule_id |-> schedule_id,
                    status |-> new_status, fault |-> fault, user |-> session.user,
                    role |-> session.role, result |-> result]
        /\ pre' = Tables
        /\ applied' = IF logged /\ completing
                       THEN [applied EXCEPT ![schedule_id] = @ + 1]
                       ELSE applied
        /\ UNCHANGED <<users, session, conn>>

(***************************************************************************)
(* add_location / delete_location.                                         *)
(***************************************************************************)
\* int(capacity_str): the strings that parse, and their values
IsIntString(str) == str \in {"500"}

ParseInt(str) == IF str = "500" THEN 500 ELSE 0

\* f"{location_type}s": the table the interpolated name denotes
TableOf(location_type) ==
    IF location_type = "port" THEN "ports"
    ELSE IF location_type = "plant" THEN "plants"
    ELSE IF location_type = "user_activitie" THEN "user_activities"
    ELSE "(no such table)"

AddLocation(location_type, capacity_str) ==
    LET authorized == LoggedIn /\ is_owner(session.role)
        result == IF ~authorized THEN "Unauthorized"
                  ELSE IF location_type = "" \/ capacity_str = "" THEN "MissingFields"
                  ELSE IF location_type \notin {"port", "plant"} THEN "InvalidType"
                  ELSE IF ~IsIntString(capacity_str) THEN "InvalidCapacity"
                  ELSE "OK"
        row == [capacity |-> ParseInt(capacity_str), current_stock |-> 0]
        toPorts == result = "OK" /\ location_type = "port"
        toPlants == result = "OK" /\ location_type = "plant"
    IN  /\ Ready
        /\ toPorts => seq.ports < MaxLocations
        /\ toPlants => seq.plants < MaxLocations
        /\ result = "OK" => seq.log < MaxLog
        /\ ports' = IF toPorts THEN ports @@ ((seq.ports + 1) :> row) ELSE ports
        /\ plants' = IF toPlants THEN plants @@ ((seq.plants + 1) :> row) ELSE plants
        /\ log' = IF result = "OK"
                  THEN LogAppended(log, seq.log, session.user, "add_location")
                  ELSE log
        /\ seq' = IF toPorts THEN [seq EXCEPT !.ports = @ + 1, !.log = @ + 1]
                  ELSE IF toPlants THEN [seq EXCEPT !.plants = @ + 1, !.log = @ + 1]
                  ELSE seq
        /\ last' = [op |-> "add_location", type |-> location_type,
                    capacity |-> capacity_str, user |-> session.user,
                    role |-> session.role, result |-> result]
        /\ pre' = Tables
        /\ UNCHANGED <<users, schedules, session, conn, applied>>

\* DELETE FROM <table> WHERE id = %s on a table keyed by id
RowDeleted(T, id) == [i \in DOMAIN T \ {id} |-> T[i]]

\* faulty variant: schedules.port_id carries no foreign key
ReferencesPort_Never(id) == FALSE

\* the schedules rows whose foreign key names the port / the plant
ReferencesPort(id) == \E s \in DOMAIN schedules : schedules[s].port_id = id

ReferencesPlant(id) == \E s \in DOMAIN schedules : schedules[s].plant_id = id

DeleteLocation(location_type, location_id) ==
    LET authorized == LoggedIn /\ is_owner(session.role)
        table == TableOf(location_type)
        \* the DELETE raises: no such table, or a schedules row references the row
        raises == \/ table \notin {"ports", "plants", "user_activities"}
                  \/ table = "ports" /\ location_id \in DOMAIN ports
                        /\ ReferencesPort(location_id)
                  \/ table = "plants" /\ location_id \in DOMAIN plants
                        /\ ReferencesPlant(location_id)
        done == authorized /\ ~raises
    IN  /\ Ready
        /\ done => seq.log < MaxLog
        /\ ports' = IF done /\ table = "ports" THEN RowDeleted(ports, location_id) ELSE ports
        /\ plants' = IF done /\ table = "plants" THEN RowDeleted(plants, location_id) ELSE plants
        /\ log' = IF done
                  THEN LogAppended(
                         IF table = "user_activities"
                         THEN SelectSeq(log, LAMBDA a : a.id # location_id)
                         ELSE log,
                         seq.log, session.user, "delete_location")
                  ELSE log
        /\ seq' = IF done THEN [seq EXCEPT !.log = @ + 1] ELSE seq
        /\ last' = [op |-> "delete_location", type |-> location_type,
                    id |-> location_id, user |-> session.user,
                    role |-> session.role,
                    result |-> IF ~authorized THEN "Unauthorized"
                               ELSE IF raises THEN "ServerError"
                               ELSE "OK"]
        /\ pre' = Tables
        /\ UNCHANGED <<users, schedules, session, conn, applied>>

(***************************************************************************)
(* export_data, upload_file and the read-only pages.                       *)
(***************************************************************************)
\* the <data_type> path segments a client sends
DataTypeInputs == {"schedules", "stock_levels", "users", "user_activities"}

\* faulty variant: the users table is exportable
ExportableTypes_WithUsers == {"schedules", "stock_levels", "users"}

ExportableTypes == {"schedules", "stock_levels"}

\* queries counts the execute_query calls the request made
ExportData(data_type) ==
    LET result == IF ~LoggedIn THEN "Redirect"
                  ELSE IF data_type \notin ExportableTypes THEN "InvalidDataType"
                  ELSE "OK"
    IN  /\ Ready
        /\ last' = [op |-> "export_data", data_type |-> data_type,
                    user |-> session.user, result |-> result,
                    queries |-> IF result = "OK" THEN 1 ELSE 0]
        /\ pre' = Tables
        /\ UNCHANGED <<users, ports, plants, schedules, log, seq, session, conn, applied>>

\* file_ok: a file is attached and its extension is an allowed one
UploadFile(file_ok) ==
    LET authorized == LoggedIn /\ can_edit_data(session.role)
        result == IF ~authorized THEN "Unauthorized"
                  ELSE IF ~file_ok THEN "InvalidFile"
                  ELSE "OK"
    IN  /\ Ready
        /\ result = "OK" => seq.log < MaxLog
        /\ log' = IF result = "OK"
                  THEN LogAppended(log, seq.log, session.user, "upload_file")
                  ELSE log
        /\ seq' = IF result = "OK"
                  THEN [seq EXCEPT !.files = @ + 1, !.log = @ + 1]
                  ELSE seq
        /\ last' = [op |-> "upload_file", file_ok |-> file_ok, user |-> session.user,
                    role |-> session.role, result |-> result]
        /\ pre' = Tables
        /\ UNCHANGED <<users, ports, plants, schedules, session, conn, applied>>

\* dashboard, schedules, stock_levels, manage_data, file_manager, reports:
\* the session check, then SELECTs only
ReadPage ==
    /\ Ready
    /\ last' = [op |-> "read", user |-> session.user,
                result |-> IF LoggedIn THEN "Page" ELSE "Redirect"]
    /\ pre' = Tables
    /\ UNCHANGED <<users, ports, plants, schedules, log, seq, session, conn, applied>>

(***************************************************************************)
(* The one-client specification.                                           *)
(***************************************************************************)
\* the client takes the response
Return ==
    /\ last # NoRequest
    /\ last' = NoRequest
    /\ pre' = Tables
    /\ UNCHANGED <<users, ports, plants, schedules, log, seq, session, conn, applied>>

ScheduleIds == 1..(MaxSchedules + 1)

Next ==
    \/ \E form \in LoginInputs : Login(form.email, form.password_ok, form.role)
    \/ Logout
    \/ \E form \in SignupInputs : Signup(form.email, form.complete)
    \/ CreateScheduleForm
    \/ \E form \in CreateInputs :
          CreateSchedule(form.type, form.port_id, form.plant_id, form.quantity,
                         form.status)
    \/ \E schedule_id \in ScheduleIds, new_status \in StatusInputs, fault \in Faults :
          UpdateScheduleStatus(schedule_id, new_status, fault)
    \/ \E form \in AddInputs : AddLocation(form[1], form[2])
    \/ \E location_type \in LocationTypeInputs, location_id \in 1..MaxLocations :
          DeleteLocation(location_type, location_id)
    \/ \E data_type \in DataTypeInputs : ExportData(data_type)
    \/ \E file_ok \in BOOLEAN : UploadFile(file_ok)
    \/ ReadPage
    \/ Return

Spec == Init /\ [][Next]_vars

(***************************************************************************)
(* update_schedule_status, statement by statement, on two workers.         *)
(* Each worker has its own connection.  A statement sees what is committed *)
(* when it runs; an UPDATE locks the rows it writes until its connection   *)
(* commits, and a second UPDATE of a locked row waits for that commit and  *)
(* then applies to the committed row.                                      *)
(***************************************************************************)
\* requests past their checks that have not appended their activity row yet
InFlight == {w \in Workers : conn[w].pc \notin {"idle", "done"}}

\* rows of ports / plants / schedules another worker's connection has locked
PortsLockedFor(w) == UNION {DOMAIN conn[v].ports : v \in Workers \ {w}}

PlantsLockedFor(w) == UNION {DOMAIN conn[v].plants : v \in Workers \ {w}}

SchedulesLockedFor(w) ==
    {conn[v].schedule_id : v \in {u \in Workers \ {w} : conn[u].status_written}}

\* the rows of T2 that differ from T1: what an UPDATE wrote
Written(T1, T2) == [i \in {j \in DOMAIN T1 : T2[j] # T1[j]} |-> T2[i]]

\* table T with the connection's uncommitted rows W put in place
Committed(T, W) == [i \in DOMAIN T |-> IF i \in DOMAIN W THEN W[i] ELSE T[i]]

\* lines 322-327: the session check and the status check, before any query
Receive(w, schedule_id, new_status) ==
    LET authorized == LoggedIn /\ can_edit_data(session.role)
        valid == new_status \in RecognizedStatuses
    IN  /\ last = NoRequest
        /\ conn[w] = Idle
        /\ seq.log + Cardinality(InFlight) < MaxLog
        /\ conn' = [conn EXCEPT ![w] =
                       [Idle EXCEPT !.schedule_id = schedule_id,
                                    !.new_status = new_status,
                                    !.pc = IF authorized /\ valid THEN "select" ELSE "done",
                                    !.result = IF ~authorized THEN "Unauthorized"
                                               ELSE IF ~valid THEN "InvalidStatus"
                                               ELSE ""]]
        /\ UNCHANGED <<users, ports, plants, schedules, log, seq, session, last, pre, applied>>

\* lines 332-336: SELECT the schedule; not found and terminal return here
Select(w) ==
    LET id == conn[w].schedule_id
        found == id \in DOMAIN schedules
        terminal == found /\ schedules[id].status \in TerminalStatuses
        next == IF conn[w].new_status = "completed" /\ IssuesStockUpdate(schedules[id])
                THEN "update_ports" ELSE "log"
    IN  /\ conn[w].pc = "select"
        /\ conn' = [conn EXCEPT ![w] =
                       IF ~found THEN [@ EXCEPT !.pc = "done", !.result = "NotFound"]
                       ELSE IF terminal
                            THEN [@ EXCEPT !.pc = "done", !.result = "InvalidTransition"]
                            ELSE [@ EXCEPT !.pc = next, !.schedule = schedules[id]]]
        /\ UNCHANGED <<users, ports, plants, schedules, log, seq, session, last, pre, applied>>

\* lines 341 / 343: UPDATE ports
UpdatePorts(w) ==
    /\ conn[w].pc = "update_ports"
    /\ conn[w].schedule.port_id \notin PortsLockedFor(w)
    /\ conn' = [conn EXCEPT ![w] =
                   [@ EXCEPT !.ports = Written(ports, PortsCompleted(ports, conn[w].schedule)),
                             !.pc = IF conn[w].schedule.type = "port-to-plant"
                                    THEN "update_plants" ELSE "log"]]
    /\ UNCHANGED <<users, ports, plants, schedules, log, seq, session, last, pre, applied>>

\* line 344: UPDATE plants
UpdatePlants(w) ==
    /\ conn[w].pc = "update_plants"
    /\ conn[w].schedule.plant_id \notin PlantsLockedFor(w)
    /\ conn' = [conn EXCEPT ![w] =
                   [@ EXCEPT !.plants = Written(plants, PlantsCompleted(plants, conn[w].schedule)),
                             !.pc = "log"]]
    /\ UNCHANGED <<users, ports, plants, schedules, log, seq, session, last, pre, applied>>

\* lines 345 / 347: log_activity inserts the activity row and commits the
\* connection, the stock UPDATEs with it
LogActivity(w) ==
    /\ conn[w].pc = "log"
    /\ ports' = Committed(ports, conn[w].ports)
    /\ plants' = Committed(plants, conn[w].plants)
    /\ log' = LogAppended(log, seq.log, session.user, "update_status")
    /\ seq' = [seq EXCEPT !.log = @ + 1]
    /\ applied' = IF conn[w].new_status = "completed"
                  THEN [applied EXCEPT ![conn[w].schedule_id] = @ + 1]
                  ELSE applied
    /\ conn' = [conn EXCEPT ![w] =
                   [@ EXCEPT !.ports = << >>, !.plants = << >>, !.pc = "update_status"]]
    /\ UNCHANGED <<users, schedules, session, last, pre>>

\* line 349: UPDATE schedules SET status
UpdateStatus(w) ==
    /\ conn[w].pc = "update_status"
    /\ conn[w].schedule_id \notin SchedulesLockedFor(w)
    /\ conn' = [conn EXCEPT ![w] = [@ EXCEPT !.status_written = TRUE, !.pc = "commit"]]
    /\ UNCHANGED <<users, ports, plants, schedules, log, seq, session, last, pre, applied>>

\* lines 350-351: the final commit, and the success response
Commit(w) ==
    /\ conn[w].pc = "commit"
    /\ schedules' = StatusWritten(schedules, conn[w].schedule_id, conn[w].new_status)
    /\ conn' = [conn EXCEPT ![w] =
                   [@ EXCEPT !.status_written = FALSE, !.pc = "done", !.result = "OK"]]
    /\ UNCHANGED <<users, ports, plants, log, seq, session, last, pre, applied>>

\* the client takes the worker's response; the connection is closed
Respond(w) ==
    /\ conn[w].pc = "done"
    /\ conn' = [conn EXCEPT ![w] = Idle]
    /\ UNCHANGED <<users, ports, plants, schedules, log, seq, session, last, pre, applied>>

NextConc ==
    \/ \E form \in LoginInputs : Login(form.email, form.password_ok, form.role)
    \/ \E form \in CreateInputs :
          CreateSchedule(form.type, form.port_id, form.plant_id, form.quantity,
                         form.status)
    \/ Return
    \/ \E w \in Workers, schedule_id \in ScheduleIds, new_status \in StatusInputs :
          Receive(w, schedule_id, new_status)
    \/ \E w \in Workers : Select(w)
    \/ \E w \in Workers : UpdatePorts(w)
    \/ \E w \in Workers : UpdatePlants(w)
    \/ \E w \in Workers : LogActivity(w)
    \/ \E w \in Workers : UpdateStatus(w)
    \/ \E w \in Workers : Commit(w)
    \/ \E w \in Workers : Respond(w)

SpecConc == Init /\ [][NextConc]_vars

(***************************************************************************)
(* signup, statement by statement, on two workers.  Every statement runs   *)
(* through execute_query, which commits it at once.                        *)
(***************************************************************************)
SignupEmails == {"new@example.com", "other@example.com", "owner@example.com"}

\* faulty variant: the users table has no UNIQUE constraint on email
EmailUnique_Unchecked(U, email) == TRUE

\* email VARCHAR(255) UNIQUE: whether a row with this email may be inserted
EmailUnique(U, email) == \A i \in DOMAIN U : U[i].email # email

\* lines 251-254: the body is read and the required fields are checked
SignupReceive(w, email, complete) ==
    /\ last = NoRequest
    /\ conn[w] = Idle
    /\ seq.log + Cardinality(InFlight) < MaxLog
    /\ conn' = [conn EXCEPT ![w] =
                   [Idle EXCEPT !.email = email,
                                !.pc = IF complete THEN "signup_select" ELSE "done",
                                !.result = IF complete THEN "" ELSE "MissingFields"]]
    /\ UNCHANGED <<users, ports, plants, schedules, log, seq, session, last, pre, applied>>

\* lines 255-256: SELECT the user; an existing row returns here
SignupSelect(w) ==
    /\ conn[w].pc = "signup_select"
    /\ conn' = [conn EXCEPT ![w] =
                   IF UsersWithEmail(conn[w].email) # << >>
                   THEN [@ EXCEPT !.pc = "done", !.result = "UserExists"]
                   ELSE [@ EXCEPT !.pc = "signup_insert"]]
    /\ UNCHANGED <<users, ports, plants, schedules, log, seq, session, last, pre, applied>>

\* lines 258-261: INSERT INTO users; a unique violation raises, and the
\* except branch (lines 264-265) answers with a registration error
SignupInsert(w) ==
    LET ok == EmailUnique(users, conn[w].email)
    IN  /\ conn[w].pc = "signup_insert"
        /\ users' = IF ok THEN UserInserted(users, conn[w].email) ELSE users
        /\ conn' = [conn EXCEPT ![w] =
                       IF ok THEN [@ EXCEPT !.pc = "signup_log"]
                       ELSE [@ EXCEPT !.pc = "done", !.result = "RegistrationError"]]
        /\ UNCHANGED <<ports, plants, schedules, log, seq, session, last, pre, applied>>

\* lines 262-263: log_activity, and the success response
SignupLog(w) ==
    /\ conn[w].pc = "signup_log"
    /\ log' = LogAppended(log, seq.log, conn[w].email, "signup")
    /\ seq' = [seq EXCEPT !.log = @ + 1]
    /\ conn' = [conn EXCEPT ![w] = [@ EXCEPT !.pc = "done", !.result = "OK"]]
    /\ UNCHANGED <<users, ports, plants, schedules, session, last, pre, applied>>

NextSignup ==
    \/ \E w \in Workers, email \in SignupEmails, complete \in BOOLEAN :
          SignupReceive(w, email, complete)
    \/ \E w \in Workers : SignupSelect(w)
    \/ \E w \in Workers : SignupInsert(w)
    \/ \E w \in Workers : SignupLog(w)
    \/ \E w \in Workers : Respond(w)

SpecSignup == Init /\ [][NextSignup]_vars

(***************************************************************************)
(* Properties.  In a state where last is an update_schedule_status         *)
(* response, pre holds the committed tables the request found.             *)
(***************************************************************************)
Served == last.op = "update_schedule_status"

Editor == last.role \in {"manager", "admin", "owner"}

Requested == pre.schedules[last.schedule_id]

StockOf(T) == [i \in DOMAIN T |-> T[i].current_stock]

RECURSIVE SumStock(_)
SumStock(T) ==
    IF DOMAIN T = {} THEN 0
    ELSE LET i == CHOOSE j \in DOMAIN T : TRUE
         IN  T[i].current_stock + SumStock([k \in DOMAIN T \ {i} |-> T[k]])

\* C1: two concurrent requests completing the same schedule, both answered
\* with success, have applied the schedule's stock delta once in all.
C1_DeltaAppliedOnce ==
    \A w1 \in Workers, w2 \in Workers :
        ( /\ w1 # w2
          /\ conn[w1].pc = "done" /\ conn[w2].pc = "done"
          /\ conn[w1].result = "OK" /\ conn[w2].result = "OK"
          /\ conn[w1].new_status = "completed" /\ conn[w2].new_status = "completed"
          /\ conn[w1].schedule_id = conn[w2].schedule_id )
        => applied[conn[w1].schedule_id] = 1

\* C2: a completion request that ends in an error leaves the committed
\* status and every port's and plant's stock as they were before it.
C2_FailedCompletionLeavesNoTrace ==
    (Served /\ last.status = "completed" /\ last.result = "InternalError")
    => /\ schedules = pre.schedules
       /\ ports = pre.ports
       /\ plants = pre.plants

\* C3: a request by an editor with a recognized status on a schedule that is
\* completed or canceled is answered InvalidTransition and changes neither
\* the schedules nor any stock.
C3_TerminalRejected ==
    ( /\ Served /\ Editor
      /\ last.status \in {"scheduled", "in-progress", "delayed", "completed", "canceled"}
      /\ last.schedule_id \in DOMAIN pre.schedules
      /\ Requested.status \in {"completed", "canceled"} )
    => /\ last.result = "InvalidTransition"
       /\ schedules = pre.schedules
       /\ ports = pre.ports
       /\ plants = pre.plants

C3_Witness ==
    /\ Served /\ Editor
    /\ last.schedule_id \in DOMAIN pre.schedules
    /\ Requested.status = "canceled"
    /\ last.status = "canceled"
    /\ last.result = "InvalidTransition"

\* C4: every port and every plant has 0 <= current_stock <= capacity.
C4_StockWithinCapacity ==
    /\ \A p \in DOMAIN ports :
          0 <= ports[p].current_stock /\ ports[p].current_stock <= ports[p].capacity
    /\ \A p \in DOMAIN plants :
          0 <= plants[p].current_stock /\ plants[p].current_stock <= plants[p].capacity

\* C5: a successful completion of a vessel-to-port schedule of quantity Q
\* adds exactly Q to the stock of the schedule's port and leaves every
\* other port and every plant as it was.
C5_VesselToPort ==
    ( /\ Served /\ last.result = "OK" /\ last.status = "completed"
      /\ Requested.type = "vessel-to-port" )
    => /\ DOMAIN ports = DOMAIN pre.ports
       /\ \A p \in DOMAIN ports :
             ports[p].current_stock =
                pre.ports[p].current_stock
                + (IF p = Requested.port_id THEN Requested.quantity ELSE 0)
       /\ \A p \in DOMAIN ports : ports[p].capacity = pre.ports[p].capacity
       /\ plants = pre.plants

C5_Witness ==
    /\ Served /\ last.result = "OK" /\ last.status = "completed"
    /\ Requested.type = "vessel-to-port"
    /\ Requested.port_id \in DOMAIN ports
    /\ Requested.quantity = 6000
    /\ ports[Requested.port_id].current_stock
          = pre.ports[Requested.port_id].current_stock + 6000

\* C6 as claimed: a successful completion of any port-to-plant schedule the
\* ledger holds takes Q from its port, adds Q to its plant, total unchanged.
C6_PortToPlant_Any ==
    ( /\ Served /\ last.result = "OK" /\ last.status = "completed"
      /\ Requested.type = "port-to-plant" )
    => /\ Requested.port_id \in DOMAIN ports
       /\ Requested.plant_id \in DOMAIN plants
       /\ ports[Requested.port_id].current_stock
             = pre.ports[Requested.port_id].current_stock - Requested.quantity
       /\ plants[Requested.plant_id].current_stock
             = pre.plants[Requested.plant_id].current_stock + Requested.quantity
       /\ SumStock(ports) + SumStock(plants) = SumStock(pre.ports) + SumStock(pre.plants)

\* C6 as amended: a successful completion of a port-to-plant schedule whose
\* port_id and plant_id are both set takes Q from that port, adds Q to that
\* plant and changes no other stock, so the total is unchanged.
C6_PortToPlant ==
    ( /\ Served /\ last.result = "OK" /\ last.status = "completed"
      /\ Requested.type = "port-to-plant"
      /\ Requested.port_id # NoId /\ Requested.plant_id # NoId )
    => /\ Requested.port_id \in DOMAIN ports
       /\ Requested.plant_id \in DOMAIN plants
       /\ StockOf(ports) =
             [StockOf(pre.ports) EXCEPT ![Requested.port_id] = @ - Requested.quantity]
       /\ StockOf(plants) =
             [StockOf(pre.plants) EXCEPT ![Requested.plant_id] = @ + Requested.quantity]
       /\ SumStock(ports) + SumStock(plants) = SumStock(pre.ports) + SumStock(pre.plants)

C6_Witness ==
    /\ Served /\ last.result = "OK" /\ last.status = "completed"
    /\ Requested.type = "port-to-plant"
    /\ Requested.port_id = 1 /\ Requested.plant_id = 1
    /\ Requested.quantity = 6000
    /\ ports[1].current_stock = pre.ports[1].current_stock - 6000
    /\ plants[1].current_stock = pre.plants[1].current_stock + 6000

\* C7: a schedule whose committed status is completed or canceled keeps
\* that status in every later state.
C7_TerminalAbsorbing ==
    [][\A s \in DOMAIN schedules :
          schedules[s].status \in {"completed", "canceled"}
          => (s \in DOMAIN schedules' /\ schedules'[s].status = schedules[s].status)]_vars

\* C8 as claimed: for an editor, an unknown schedule id is answered NotFound
\* and a terminal schedule InvalidTransition, whatever status is sent;
\* InvalidStatus is answered only for a known, non-terminal schedule.
C8_NotFoundFirst ==
    (Served /\ Editor)
    => /\ last.schedule_id \notin DOMAIN pre.schedules => last.result = "NotFound"
       /\ ( last.schedule_id \in DOMAIN pre.schedules
            /\ Requested.status \in {"completed", "canceled"} )
          => last.result = "InvalidTransition"
       /\ last.result = "InvalidStatus"
          => /\ last.schedule_id \in DOMAIN pre.schedules
             /\ Requested.status \notin {"completed", "canceled"}
             /\ last.status \notin
                   {"scheduled", "in-progress", "delayed", "completed", "canceled"}

\* C8 as amended: for an editor the checks run in the order InvalidStatus,
\* NotFound, InvalidTransition: an unrecognized or absent status is answered
\* InvalidStatus whatever the schedule id; with a recognized status an
\* unknown id is answered NotFound and a terminal schedule InvalidTransition.
C8_InvalidStatusFirst ==
    (Served /\ Editor)
    => LET recognized == last.status \in
                {"scheduled", "in-progress", "delayed", "completed", "canceled"}
           known == last.schedule_id \in DOMAIN pre.schedules
       IN  /\ ~recognized => last.result = "InvalidStatus"
           /\ (recognized /\ ~known) => last.result = "NotFound"
           /\ (recognized /\ known /\ Requested.status \in {"completed", "canceled"})
                 => last.result = "InvalidTransition"
           /\ last.result = "InvalidStatus" => ~recognized

C8_Witness ==
    /\ Served /\ Editor
    /\ last.schedule_id \notin DOMAIN pre.schedules
    /\ last.status = "archived"
    /\ last.result = "InvalidStatus"

\* C9: every step keeps the activity rows already in the log, unchanged
\* and in place: the log only grows.
C9_LogAppendOnly ==
    [][/\ Len(log') >= Len(log)
       /\ SubSeq(log', 1, Len(log)) = log]_vars

\* C10: a successful update_schedule_status request appends exactly one
\* activity row, with action update_status and the acting user.
C10_OneActivityRecord ==
    (Served /\ last.result = "OK")
    => /\ Len(log) = Len(pre.log) + 1
       /\ SubSeq(log, 1, Len(pre.log)) = pre.log
       /\ log[Len(log)].action = "update_status"
       /\ log[Len(log)].user_email = last.user

C10_Witness ==
    /\ Served /\ last.result = "OK" /\ last.status = "delayed"
    /\ Len(log) = Len(pre.log) + 1
    /\ log[Len(log)].action = "update_status"

\* C11: the edit check is true exactly for manager, admin and owner, and a
\* create_schedule or update_schedule_status request without a session or
\* with another role leaves the schedules and every stock unchanged.
C11_EditGate ==
    /\ \A r \in {"manager", "admin", "owner", "user", "guest", ""} :
          can_edit_data(r) <=> r \in {"manager", "admin", "owner"}
    /\ ( /\ last.op \in {"create_schedule", "update_schedule_status"}
         /\ last.role \notin {"manager", "admin", "owner"} )
       => /\ schedules = pre.schedules
          /\ ports = pre.ports
          /\ plants = pre.plants
          /\ last.result \in {"Unauthorized", "Redirect"}

C11_Witness ==
    /\ Served
    /\ last.role = "user"
    /\ last.status = "completed"
    /\ last.schedule_id = 1
    /\ schedules[1].status = "scheduled"
    /\ last.result = "Unauthorized"
    /\ ports = pre.ports

\* C12: the owner check is true exactly for admin and owner; a port or
\* plant row appears or disappears only in an add_location or
\* delete_location request of an admin or owner session, and such a request
\* from any other session leaves the ports and plants tables unchanged.
C12_OwnerGate ==
    /\ \A r \in {"manager", "admin", "owner", "user", "guest", ""} :
          is_owner(r) <=> r \in {"admin", "owner"}
    /\ (DOMAIN ports # DOMAIN pre.ports \/ DOMAIN plants # DOMAIN pre.plants)
       => /\ last.op \in {"add_location", "delete_location"}
          /\ last.role \in {"admin", "owner"}
    /\ ( /\ last.op \in {"add_location", "delete_location"}
         /\ last.role \notin {"admin", "owner"} )
       => /\ ports = pre.ports
          /\ plants = pre.plants
          /\ last.result = "Unauthorized"

C12_Witness ==
    /\ last.op = "add_location"
    /\ last.role = "manager"
    /\ last.type = "port" /\ last.capacity = "500"
    /\ last.result = "Unauthorized"
    /\ ports = pre.ports

\* C13: under any interleaving of two signup requests the users table holds
\* at most one row per email, and a signup whose email has a row when its
\* check runs is answered with a failure.
C13_OneRowPerEmail ==
    /\ \A i \in DOMAIN users, j \in DOMAIN users :
          users[i].email = users[j].email => i = j
    /\ \A w \in Workers :
          ( /\ conn[w].pc = "done"
            /\ conn[w].email = "owner@example.com"
            /\ conn[w].result # "MissingFields" )
          => conn[w].result = "UserExists"
    /\ \A w \in Workers :
          (conn[w].pc = "done" /\ conn[w].result \in {"UserExists", "RegistrationError", "OK"})
          => Len(UsersWithEmail(conn[w].email)) = 1

C13_Witness ==
    \E w1 \in Workers, w2 \in Workers :
        /\ conn[w1].pc = "done" /\ conn[w2].pc = "done"
        /\ conn[w1].email = "new@example.com" /\ conn[w2].email = "new@example.com"
        /\ conn[w1].result = "OK"
        /\ conn[w2].result = "RegistrationError"
        /\ Len(UsersWithEmail("new@example.com")) = 1

\* C14: every schedule in the ledger has quantity >= 1, and a create
\* request with a zero or negative quantity adds no schedule.
C14_PositiveQuantity ==
    /\ \A s \in DOMAIN schedules : schedules[s].quantity >= 1
    /\ ( /\ last.op = "create_schedule" /\ last.method = "POST"
         /\ last.quantity <= 0 )
       => schedules = pre.schedules

\* C16: a schedule inserted by create_schedule is the one new row of the
\* ledger, has status scheduled whatever the form carries, and has
\* created_by equal to the session user.
C16_CreatedScheduled ==
    ( /\ last.op = "create_schedule" /\ last.method = "POST"
      /\ last.result = "OK" )
    => /\ DOMAIN schedules = DOMAIN pre.schedules \cup {seq.schedules}
       /\ seq.schedules \notin DOMAIN pre.schedules
       /\ schedules[seq.schedules].status = "scheduled"
       /\ schedules[seq.schedules].created_by = last.user
       /\ last.user # ""
       /\ \A s \in DOMAIN pre.schedules : schedules[s] = pre.schedules[s]

C16_Witness ==
    /\ last.op = "create_schedule" /\ last.method = "POST"
    /\ last.result = "OK"
    /\ last.form_status = "completed"
    /\ schedules[seq.schedules].status = "scheduled"
    /\ schedules[seq.schedules].created_by = "manager@example.com"

\* C15: with a session, export_data of any data type other than schedules
\* and stock_levels is rejected, and no query has run for that request.
C15_ExportRejectedBeforeQuery ==
    ( /\ last.op = "export_data"
      /\ last.user # ""
      /\ last.data_type \notin {"schedules", "stock_levels"} )
    => /\ last.result = "InvalidDataType"
       /\ last.queries = 0
       /\ Tables = pre

C15_Witness ==
    /\ last.op = "export_data"
    /\ last.user # ""
    /\ last.data_type = "users"
    /\ last.result = "InvalidDataType"
    /\ last.queries = 0

\* C17: a schedule whose status a request changed to completed has its
\* stock delta committed: in every committed state, the states a failure
\* between the two commits leaves included, completed implies the stock
\* commit of that completion has happened, and the delta is in the tables.
C17_StockDurableBeforeStatus ==
    /\ \A s \in DOMAIN schedules :
          ( /\ schedules[s].status = "completed"
            /\ ~(s \in DOMAIN SeedSchedules /\ SeedSchedules[s].status = "completed") )
          => applied[s] >= 1
    /\ ( /\ Served /\ last.status = "completed"
         /\ last.schedule_id \in DOMAIN pre.schedules
         /\ Requested.status # "completed"
         /\ schedules[last.schedule_id].status = "completed" )
       => LET q == Requested.quantity
              dPort == IF Requested.type = "vessel-to-port" THEN q
                       ELSE IF Requested.type = "port-to-plant" THEN 0 - q ELSE 0
              dPlant == IF Requested.type = "port-to-plant" THEN q ELSE 0
          IN  /\ DOMAIN ports = DOMAIN pre.ports
              /\ DOMAIN plants = DOMAIN pre.plants
              /\ \A p \in DOMAIN ports :
                    ports[p].current_stock = pre.ports[p].current_stock
                       + (IF p = Requested.port_id THEN dPort ELSE 0)
              /\ \A p \in DOMAIN plants :
                    plants[p].current_stock = pre.plants[p].current_stock
                       + (IF p = Requested.plant_id THEN dPlant ELSE 0)

C17_Witness ==
    /\ Served /\ last.status = "completed" /\ last.result = "OK"
    /\ last.schedule_id = 3
    /\ schedules[3].status = "completed"
    /\ applied[3] = 1
    /\ ports[2].current_stock = pre.ports[2].current_stock + 7500

\* C18: the current_stock of a port or plant that exists before and after a
\* request differs only if the request is an update_schedule_status to
\* completed.
C18_StockChangesOnlyOnCompletion ==
    /\ \A p \in DOMAIN ports \cap DOMAIN pre.ports :
          ports[p].current_stock # pre.ports[p].current_stock
          => (Served /\ last.status = "completed")
    /\ \A p \in DOMAIN plants \cap DOMAIN pre.plants :
          plants[p].current_stock # pre.plants[p].current_stock
          => (Served /\ last.status = "completed")

C18_Witness ==
    /\ Served /\ last.status = "canceled" /\ last.result = "OK"
    /\ schedules[last.schedule_id].status = "canceled"
    /\ StockOf(ports) = StockOf(pre.ports)
    /\ StockOf(plants) = StockOf(pre.plants)

\* C19 as claimed: a delete_location request of an admin or owner for an
\* existing port or plant removes the row and reports success, whether or
\* not a schedule references it.
C19_DeleteUnconditional ==
    ( /\ last.op = "delete_location"
      /\ last.role \in {"admin", "owner"}
      /\ \/ last.type = "port" /\ last.id \in DOMAIN pre.ports
         \/ last.type = "plant" /\ last.id \in DOMAIN pre.plants )
    => /\ last.result = "OK"
       /\ last.type = "port" => last.id \notin DOMAIN ports
       /\ last.type = "plant" => last.id \notin DOMAIN plants

\* C19 as amended: a delete_location request of an admin or owner for an
\* existing port or plant that no schedule references removes that row only
\* and reports success; when a schedule references the row the foreign key
\* makes the DELETE fail: the request ends in a server error and the ports,
\* the plants and the activity log are unchanged.
C19_DeleteUnlessReferenced ==
    ( /\ last.op = "delete_location"
      /\ last.role \in {"admin", "owner"}
      /\ \/ last.type = "port" /\ last.id \in DOMAIN pre.ports
         \/ last.type = "plant" /\ last.id \in DOMAIN pre.plants )
    => LET referenced ==
              \E s \in DOMAIN pre.schedules :
                  \/ last.type = "port" /\ pre.schedules[s].port_id = last.id
                  \/ last.type = "plant" /\ pre.schedules[s].plant_id = last.id
       IN  IF referenced
           THEN /\ last.result = "ServerError"
                /\ ports = pre.ports
                /\ plants = pre.plants
                /\ log = pre.log
           ELSE /\ last.result = "OK"
                /\ last.type = "port" =>
                      (ports = [p \in DOMAIN pre.ports \ {last.id} |-> pre.ports[p]]
                       /\ plants = pre.plants)
                /\ last.type = "plant" =>
                      (plants = [p \in DOMAIN pre.plants \ {last.id} |-> pre.plants[p]]
                       /\ ports = pre.ports)

C19_Witness ==
    /\ last.op = "delete_location"
    /\ last.role = "owner"
    /\ last.type = "plant" /\ last.id = 2
    /\ 2 \in DOMAIN pre.plants
    /\ 2 \notin DOMAIN plants
    /\ last.result = "OK"

\* C20: an update_schedule_status request that is answered with a failure
\* leaves the activity log as it was before the request.
C20_FailureLeavesLog ==
    (Served /\ last.result # "OK") => log = pre.log

\* C21: when no statement fails, a request by an editor with any of the
\* five recognized statuses on a schedule that is scheduled, in-progress or
\* delayed succeeds, and afterwards the stored status is the requested one
\* (whatever the previous one, the same one included) and no other field
\* or row of the ledger has changed.
C21_AnyRecognizedStatusStored ==
    ( /\ Served /\ Editor
      /\ last.fault = "none"
      /\ last.status \in {"scheduled", "in-progress", "delayed", "completed", "canceled"}
      /\ last.schedule_id \in DOMAIN pre.schedules
      /\ Requested.status \in {"scheduled", "in-progress", "delayed"} )
    => /\ last.result = "OK"
       /\ schedules =
             [pre.schedules EXCEPT ![last.schedule_id] =
                 [Requested EXCEPT !.status = last.status]]

C21_Witness ==
    /\ Served /\ Editor
    /\ last.result = "OK"
    /\ last.schedule_id = 3
    /\ Requested.status = "in-progress"
    /\ last.status = "scheduled"
    /\ schedules[3].status = "scheduled"

====
